---------------------------- MODULE Spec2Model ----------------------------
(***************************************************************************)
(* Rotation-decision engine of pdf_biratu (app/pdf_utils.py, app/main.py). *)
(*                                                                         *)
(* Detector results are environment inputs.  An exception raised by a      *)
(* library call is the value Raise; a try/except in the source is the      *)
(* test that turns Raise into the handler's value.  Python's None is the   *)
(* value None.  Quadrant angles are whole degrees, np.median is kept       *)
(* doubled, and skew estimates are in hundredths of a degree.              *)
(***************************************************************************)
EXTENDS Integers, Sequences, FiniteSets, TLC

VARIABLES
    inp,        \* SpecDecide: detector outcomes of the page under test
    det,        \* SpecDecide: what detect_rotations computed for the page
    fix,        \* SpecDecide: what fix_pdf_rotation's loop body did with it
    page_count, \* Spec: src.page_count
    i,          \* Spec: loop index of fix_pdf_rotation (pages done so far)
    new_doc,    \* Spec: pages inserted into new_doc so far
    decided,    \* Spec: history, rotate_clockwise of every processed page
    changed,    \* Spec: the changed flag
    pc,         \* Spec: "loop", "returned" or "raised"
    ret,        \* Spec: value returned: "None" (not yet), "True", "False"
    written,    \* Spec: whether output_pdf_path has been written
    out_file,   \* Spec: the pages of the document at output_pdf_path
    cv_in,      \* SpecCV: what cv2.HoughLines returned for the image
    cv_out,     \* SpecCV: what detect_rotation_cv computed and returned
    img_in,     \* SpecImg: the request and the detector results on its image
    img_out     \* SpecImg: what fix_rotation did

dvars == <<inp, det, fix>>
pvars == <<page_count, i, new_doc, decided, changed, pc, ret, written, out_file>>
cvars == <<cv_in, cv_out>>
ivars == <<img_in, img_out>>
vars == <<dvars, pvars, cvars, ivars>>

\* Python's None (pdf_utils.py: candidate_from_cv = None, best_ccw = None).
None == -1
\* An exception leaving a library call (caught by "except Exception").
Raise == -2

\* Bounds of the model.
MaxLen == 3     \* OCR text lengths are LenStep * (0..MaxLen)
LenStep == 10
MaxPages == 5   \* src.page_count ranges over 0..MaxPages

Quadrants == {0, 90, 180, 270}
\* for ccw in (0, 90, 180, 270)
Candidates == <<0, 90, 180, 270>>
TextLens == {LenStep * k : k \in 0..MaxLen}

\* Outcome of pytesseract.image_to_osd plus the parse of its output: the
\* orientation it prints, None when no 'Orientation in degrees' line is
\* printed, Raise when the engine or int() raises.
OsdOutcomes == Quadrants \cup {None, Raise}
\* Outcome of detect_rotation_cv as the deciders see it.
CvOutcomes == Quadrants \cup {None, Raise}
\* Outcome of pytesseract.image_to_string(...) then len(txt.strip()).
OcrOutcomes == TextLens \cup {Raise}
\* The angle, if any, for which pil_img.rotate(angle, expand=True) raises.
RotateOutcomes == Quadrants \cup {None}

\* A page whose rasterisation (load_page / get_pixmap / Image.open) raises.
UnreadablePage ==
    [raster |-> Raise, osd |-> 0, cv |-> None,
     ocr |-> <<0, 0, 0, 0>>, rotbad |-> None]

ReadablePages ==
    [raster : {0}, osd : OsdOutcomes, cv : CvOutcomes,
     ocr : [1..4 -> OcrOutcomes], rotbad : RotateOutcomes]

Pages == ReadablePages \cup {UnreadablePage}

-----------------------------------------------------------------------------
(* detect_page_rotation_from_image *)

detect_page_rotation_from_image(osd) ==
    IF osd = Raise THEN 0          \* except Exception: pass; return 0
    ELSE IF osd = None THEN 0      \* no matching line: return 0
    ELSE osd % 360

\* pil_img.rotate(ccw, expand=True): TRUE when it raises
rotate_raises(p, ccw) == p.rotbad = ccw

\* best_ccw = None; best_len = -1
VoteStart == [best_len |-> -1, best_ccw |-> None, calls |-> 0, raised |-> FALSE]

-----------------------------------------------------------------------------
(* detect_rotations.choose_rotation_to_apply *)

\* try: osd_deg = detect_page_rotation_from_image(pil_img)
\* except Exception: osd_deg = 0
choose_osd_deg(p) ==
    LET r == detect_page_rotation_from_image(p.osd)
    IN  IF r = Raise THEN 0 ELSE r

\* candidate_from_osd = (360 - osd_deg) % 360 if osd_deg != 0 else 0
choose_candidate_from_osd(osd_deg) ==
    IF osd_deg # 0 THEN (360 - osd_deg) % 360 ELSE 0

\* candidate_from_cv = None
\* try: deg_cv = detect_rotation_cv(pil_img)
\*      if deg_cv is not None:
\*          candidate_from_cv = (360 - deg_cv) % 360 if deg_cv != 0 else 0
\* except Exception: candidate_from_cv = None
choose_candidate_from_cv(deg_cv) ==
    IF deg_cv = Raise THEN None
    ELSE IF deg_cv # None
         THEN (IF deg_cv # 0 THEN (360 - deg_cv) % 360 ELSE 0)
         ELSE None

\* if osd_deg != 0 and candidate_from_cv is not None
\*    and candidate_from_cv == candidate_from_osd
choose_agreement(osd_deg, c_osd, c_cv) ==
    osd_deg # 0 /\ c_cv # None /\ c_cv = c_osd

\* try: txt = pytesseract.image_to_string(test_img)
\* except Exception: txt = ''
\* l = len(txt.strip())
choose_text_len(o) == IF o = Raise THEN 0 ELSE o

\* The "for ccw in (0, 90, 180, 270)" loop from candidate k on.  st carries
\* best_len, best_ccw, the number of image_to_string calls made so far and
\* whether an exception left the loop body.
RECURSIVE choose_ocr_vote(_, _, _)
choose_ocr_vote(p, k, st) ==
    IF k > 4 \/ st.raised THEN st
    ELSE IF rotate_raises(p, Candidates[k])
         THEN [st EXCEPT !.raised = TRUE]
    ELSE LET l == choose_text_len(p.ocr[k])
         IN  IF l = Raise
             THEN [st EXCEPT !.raised = TRUE, !.calls = @ + 1]
             ELSE choose_ocr_vote(p, k + 1,
                    IF l > st.best_len
                    THEN [st EXCEPT !.best_len = l,
                                    !.best_ccw = Candidates[k],
                                    !.calls = @ + 1]
                    ELSE [st EXCEPT !.calls = @ + 1])

\* final_clockwise = (360 - best_ccw) % 360; return int(final_clockwise)
choose_final_clockwise(best_ccw) == (360 - best_ccw) % 360

\* fallback: if candidate_from_osd is not None: return it
\*           if candidate_from_cv is not None: return it
\*           return 0
choose_fallback(c_osd, c_cv) ==
    IF c_osd # None THEN c_osd
    ELSE IF c_cv # None THEN c_cv
    ELSE 0

\* The decider: rot is the value returned, path the return statement taken
\* ("agree", "vote" or "fallback"), calls the image_to_string calls made.
choose_rotation_to_apply(p) ==
    LET osd_deg == choose_osd_deg(p)
        c_osd == choose_candidate_from_osd(osd_deg)
        c_cv == choose_candidate_from_cv(p.cv)
        base == [osd_deg |-> osd_deg, candidate_from_osd |-> c_osd,
                 candidate_from_cv |-> c_cv]
    IN  IF choose_agreement(osd_deg, c_osd, c_cv)
        THEN base @@ [rot |-> c_osd, path |-> "agree", calls |-> 0]
        ELSE LET v == choose_ocr_vote(p, 1, VoteStart)
             IN  IF ~v.raised /\ v.best_ccw # None
                 THEN base @@ [rot |-> choose_final_clockwise(v.best_ccw),
                               path |-> "vote", calls |-> v.calls]
                 ELSE base @@ [rot |-> choose_fallback(c_osd, c_cv),
                               path |-> "fallback", calls |-> v.calls]

-----------------------------------------------------------------------------
(* fix_pdf_rotation.decide_clockwise_rotation *)

\* try: osd_deg = detect_page_rotation_from_image(pil_img)
\* except Exception: osd_deg = 0
decide_osd_deg(p) ==
    LET r == detect_page_rotation_from_image(p.osd)
    IN  IF r = Raise THEN 0 ELSE r

\* candidate_from_osd = (360 - osd_deg) % 360 if osd_deg != 0 else 0
decide_candidate_from_osd(osd_deg) ==
    IF osd_deg # 0 THEN (360 - osd_deg) % 360 ELSE 0

\* Faulty variant: the conditional expression grouped the other way,
\* ((360 - deg_cv) % 360 if ... else 0) if deg_cv == 0 else None.
decide_candidate_from_cv_misgrouped(deg_cv) ==
    IF deg_cv = Raise THEN None
    ELSE IF deg_cv = 0
         THEN (IF deg_cv # None /\ deg_cv # 0 THEN (360 - deg_cv) % 360 ELSE 0)
         ELSE None

\* try: deg_cv = detect_rotation_cv(pil_img)
\*      candidate_from_cv = (360 - deg_cv) % 360
\*          if deg_cv is not None and deg_cv != 0
\*          else 0 if deg_cv == 0 else None
\* except Exception: candidate_from_cv = None
decide_candidate_from_cv(deg_cv) ==
    IF deg_cv = Raise THEN None
    ELSE IF deg_cv # None /\ deg_cv # 0 THEN (360 - deg_cv) % 360
    ELSE (IF deg_cv = 0 THEN 0 ELSE None)

\* Faulty variant: CV's candidate compared with OSD's raw orientation.
decide_agreement_raw(osd_deg, c_osd, c_cv) ==
    osd_deg # 0 /\ c_cv # None /\ c_cv = osd_deg

\* if osd_deg != 0 and candidate_from_cv is not None
\*    and candidate_from_cv == candidate_from_osd
decide_agreement(osd_deg, c_osd, c_cv) ==
    osd_deg # 0 /\ c_cv # None /\ c_cv = c_osd

\* Faulty variant: no try/except around image_to_string.
decide_text_len_nocatch(o) == o

\* try: txt = pytesseract.image_to_string(test_img)
\* except Exception: txt = ''
\* l = len(txt.strip())
decide_text_len(o) == IF o = Raise THEN 0 ELSE o

\* The "for ccw in (0, 90, 180, 270)" loop from candidate k on.  st carries
\* best_len, best_ccw, the number of image_to_string calls made so far and
\* whether an exception left the loop body.
RECURSIVE decide_ocr_vote(_, _, _)
decide_ocr_vote(p, k, st) ==
    IF k > 4 \/ st.raised THEN st
    ELSE IF rotate_raises(p, Candidates[k])
         THEN [st EXCEPT !.raised = TRUE]
    ELSE LET l == decide_text_len(p.ocr[k])
         IN  IF l = Raise
             THEN [st EXCEPT !.raised = TRUE, !.calls = @ + 1]
             ELSE decide_ocr_vote(p, k + 1,
                    IF l > st.best_len
                    THEN [st EXCEPT !.best_len = l,
                                    !.best_ccw = Candidates[k],
                                    !.calls = @ + 1]
                    ELSE [st EXCEPT !.calls = @ + 1])

\* Faulty variant: the conversion without the reduction modulo 360.
decide_final_clockwise_nomod(best_ccw) == 360 - best_ccw

\* return int((360 - best_ccw) % 360)
decide_final_clockwise(best_ccw) == (360 - best_ccw) % 360

\* fallback: if candidate_from_osd is not None: return it
\*           if candidate_from_cv is not None: return it
\*           return 0
decide_fallback(c_osd, c_cv) ==
    IF c_osd # None THEN c_osd
    ELSE IF c_cv # None THEN c_cv
    ELSE 0

\* The decider: rot is the value returned, path the return statement taken
\* ("agree", "vote" or "fallback"), calls the image_to_string calls made.
decide_clockwise_rotation(p) ==
    LET osd_deg == decide_osd_deg(p)
        c_osd == decide_candidate_from_osd(osd_deg)
        c_cv == decide_candidate_from_cv(p.cv)
        base == [osd_deg |-> osd_deg, candidate_from_osd |-> c_osd,
                 candidate_from_cv |-> c_cv]
    IN  IF decide_agreement(osd_deg, c_osd, c_cv)
        THEN base @@ [rot |-> c_osd, path |-> "agree", calls |-> 0]
        ELSE LET v == decide_ocr_vote(p, 1, VoteStart)
             IN  IF ~v.raised /\ v.best_ccw # None
                 THEN base @@ [rot |-> decide_final_clockwise(v.best_ccw),
                               path |-> "vote", calls |-> v.calls]
                 ELSE base @@ [rot |-> decide_fallback(c_osd, c_cv),
                               path |-> "fallback", calls |-> v.calls]

-----------------------------------------------------------------------------
(* One iteration of the page loops *)

\* Whether a detector call that was made on the page raised; d is the
\* decider's record (d.calls image_to_string calls were made).
detector_raised(p, d) ==
    \/ p.osd = Raise
    \/ p.cv = Raise
    \/ \E k \in 1..d.calls : p.ocr[k] = Raise

DetIdle ==
    [done |-> FALSE, raised |-> FALSE, detected_deg |-> None,
     rotate_clockwise |-> None, needs_rotation |-> FALSE,
     candidate_from_cv |-> None, calls |-> 0, path |-> "none"]

\* detect_rotations, body of "for i in range(doc.page_count)"
detect_page(p) ==
    IF p.raster = Raise
    THEN [DetIdle EXCEPT !.done = TRUE, !.raised = TRUE]
    ELSE LET d == choose_rotation_to_apply(p)
         IN  [done |-> TRUE, raised |-> FALSE,
              detected_deg |-> detect_page_rotation_from_image(p.osd),
              rotate_clockwise |-> d.rot,
              needs_rotation |-> (d.rot # 0),
              candidate_from_cv |-> d.candidate_from_cv,
              calls |-> d.calls, path |-> d.path]

FixIdle ==
    [done |-> FALSE, raised |-> FALSE, decided |-> FALSE, rot |-> None,
     osd_deg |-> None, candidate_from_cv |-> None, calls |-> 0, path |-> "none",
     page_cw |-> None, changed |-> FALSE, detfail |-> FALSE]

\* Faulty variant: the clockwise angle handed to PIL unconverted.
rotate_ccw_unconverted(rotate_clockwise) == rotate_clockwise

\* rotate_ccw = (360 - rotate_clockwise) % 360
rotate_ccw_of(rotate_clockwise) == (360 - rotate_clockwise) % 360

\* pil_img.rotate(ccw, expand=True) turns the image counter-clockwise by
\* ccw: the clockwise turn of the result relative to its argument.
pil_rotate_cw(ccw) == (360 - ccw) % 360

\* Faulty variant: every page counts as changed.
page_changes_always(rotate_clockwise) == TRUE

\* if rotate_clockwise != 0: ...; changed = True
page_changes(rotate_clockwise) == rotate_clockwise # 0

\* fix_pdf_rotation, body of "for i in range(src.page_count)"
fix_page(p) ==
    IF p.raster = Raise
    THEN [FixIdle EXCEPT !.done = TRUE, !.raised = TRUE]
    ELSE LET d == decide_clockwise_rotation(p)
             seen == [FixIdle EXCEPT !.done = TRUE, !.decided = TRUE,
                        !.rot = d.rot, !.osd_deg = d.osd_deg,
                        !.candidate_from_cv = d.candidate_from_cv,
                        !.calls = d.calls, !.path = d.path,
                        !.detfail = detector_raised(p, d)]
         IN  IF page_changes(d.rot)
             THEN IF rotate_raises(p, rotate_ccw_of(d.rot))
                  THEN [seen EXCEPT !.raised = TRUE]
                  ELSE [seen EXCEPT !.page_cw = pil_rotate_cw(rotate_ccw_of(d.rot)),
                                    !.changed = TRUE]
             ELSE [seen EXCEPT !.page_cw = 0]

-----------------------------------------------------------------------------
(* detect_rotation_cv *)

\* Bound of the model: HoughLines returns at most MaxLines lines.
MaxLines == 2
\* cv2.HoughLines(edges, 1, np.pi / 180, ...): theta is a whole number of
\* degrees in [0, 180).
ThetaDegrees == 180

\* lines is None, or an array of (rho, theta); thetas holds angle =
\* theta * 180 / np.pi of each line, in order.
IsHoughResult(h) ==
    \/ h = [found |-> FALSE, thetas |-> << >>]
    \/ \E k \in 0..MaxLines :
          \E t \in [1..k -> 0..(ThetaDegrees - 1)] :
              h = [found |-> TRUE, thetas |-> t]

CvOutIdle == [done |-> FALSE, ret |-> None, lines |-> 0, median_x2 |-> 0]

CvIdle ==
    /\ cv_in = [found |-> FALSE, thetas |-> << >>]
    /\ cv_out = CvOutIdle

\* angles = [((a + 90) % 180) - 90 for a in angles]
normalise_angle(a) == ((a + 90) % 180) - 90

\* s with x inserted before the first greater element (s sorted).
RECURSIVE insert_sorted(_, _)
insert_sorted(s, x) ==
    IF s = << >> THEN <<x>>
    ELSE IF x <= Head(s) THEN <<x>> \o s
    ELSE <<Head(s)>> \o insert_sorted(Tail(s), x)

RECURSIVE sorted(_)
sorted(s) == IF s = << >> THEN << >> ELSE insert_sorted(sorted(Tail(s)), Head(s))

\* np.median(angles), doubled so that it stays an integer: the middle
\* element, or the mean of the two middle elements.
median_x2(angles) ==
    LET t == sorted(angles)
        n == Len(t)
    IN  IF n % 2 = 1 THEN 2 * t[(n + 1) \div 2]
        ELSE t[n \div 2] + t[n \div 2 + 1]

\* round(num / den) for den > 0, Python's round: a tie goes to the even
\* neighbour.
py_round(num, den) ==
    LET q == num \div den
        r == num - q * den
    IN  IF 2 * r < den THEN q
        ELSE IF 2 * r > den THEN q + 1
        ELSE (IF q % 2 = 0 THEN q ELSE q + 1)

Abs(x) == IF x < 0 THEN -x ELSE x

\* Faulty variant: the sign test of the vertical band reversed.
vertical_band_choice_reversed(m2) == IF m2 > 0 THEN 90 ELSE 270

\* if median_angle > 0: return 270 else: return 90
vertical_band_choice(m2) == IF m2 > 0 THEN 270 ELSE 90

\* The decision on the median (m2 is twice median_angle):
\*   if abs(median_angle) < 10: return 0
\*   if 80 < abs(median_angle) <= 100: ... 270 or 90
\*   rounded = int(round(median_angle / 90.0) * 90) % 360
\*   if rounded in (0, 90, 180, 270): return rounded
\*   return None
quadrant_of_median(m2) ==
    IF Abs(m2) < 2 * 10 THEN 0
    ELSE IF 2 * 80 < Abs(m2) /\ Abs(m2) <= 2 * 100
         THEN vertical_band_choice(m2)
    ELSE LET rounded == (py_round(m2, 2 * 90) * 90) % 360
         IN  IF rounded \in {0, 90, 180, 270} THEN rounded ELSE None

\* detect_rotation_cv from the Hough result on
detect_rotation_cv(h) ==
    IF ~h.found                          \* if lines is None: return None
    THEN [CvOutIdle EXCEPT !.done = TRUE]
    ELSE IF Len(h.thetas) = 0            \* if len(angles) == 0: return None
    THEN [CvOutIdle EXCEPT !.done = TRUE]
    ELSE LET angles == [k \in 1..Len(h.thetas) |-> normalise_angle(h.thetas[k])]
             m2 == median_x2(angles)
         IN  [done |-> TRUE, ret |-> quadrant_of_median(m2),
              lines |-> Len(angles), median_x2 |-> m2]

-----------------------------------------------------------------------------
(* main.py: detect_table_angle and fix_rotation, skew in 1/100 degree *)

\* Bound of the model: deskew's estimate lies within MaxSkew/100 degrees.
MaxSkew == 45

\* The 'Rotate:' value of image_to_osd; None when the output has no such
\* line, Raise when the call or the parse raises.
OsdRotateOutcomes == Quadrants \cup {None, Raise}

\* determine_skew(gray): "angle" with the estimate in skew, "nan" for None or
\* NaN, "raise" for an exception.
SkewOutcomes ==
    [state : {"angle"}, skew : -MaxSkew..MaxSkew]
    \cup [state : {"nan", "raise"}, skew : {0}]

Requests ==
    [force_table_fix : BOOLEAN, est : SkewOutcomes, rotate : OsdRotateOutcomes]

ImgOutIdle ==
    [done |-> FALSE, page_rotation |-> 0, fine_rotation |-> 0,
     applied |-> FALSE, detection_method |-> "none", total_x100 |-> 0]

ImgIdle ==
    /\ img_in = [force_table_fix |-> FALSE, est |-> [state |-> "nan", skew |-> 0],
                 rotate |-> None]
    /\ img_out = ImgOutIdle

\* The value of table_angle: Python's None, or a number.
NoAngle == [none |-> TRUE, angle |-> 0]
Angle(a) == [none |-> FALSE, angle |-> a]

\* Faulty variant: every determinable estimate is returned as it is.
detect_table_angle_nofloor(est) ==
    IF est.state = "raise" THEN NoAngle
    ELSE IF est.state = "nan" THEN NoAngle
    ELSE Angle(est.skew)

\* detect_table_angle: None when undetermined or on an exception, the angle
\* when abs(angle) > 0.2, else 0.
detect_table_angle(est) ==
    IF est.state = "raise" THEN NoAngle
    ELSE IF est.state = "nan" THEN NoAngle
    ELSE IF Abs(est.skew) > 20 THEN Angle(est.skew)
    ELSE Angle(0)

\* should_apply = (table_angle is not None and abs(table_angle) > 0.3)
\* if force_table_fix and table_angle is not None and table_angle != 0:
\*     should_apply = True
should_apply_of(force_table_fix, t) ==
    IF force_table_fix /\ ~t.none /\ t.angle # 0 THEN TRUE
    ELSE ~t.none /\ Abs(t.angle) > 30

\* PASO 1: page_rotation = -int(<Rotate: value>), detection_method = "ocr";
\* an exception leaves page_rotation = 0.
page_rotation_of(rotate) ==
    IF rotate \in {None, Raise} THEN 0 ELSE -rotate

\* fix_rotation, from "page_rotation = 0" to "total_rotation = ..."
fix_rotation(req) ==
    LET page_rotation == page_rotation_of(req.rotate)
        method1 == IF req.rotate \in {None, Raise} THEN "none" ELSE "ocr"
        table_angle == detect_table_angle(req.est)
        should_apply == should_apply_of(req.force_table_fix, table_angle)
        fine_rotation == IF should_apply THEN table_angle.angle ELSE 0
    IN  [done |-> TRUE,
         page_rotation |-> page_rotation,
         fine_rotation |-> fine_rotation,
         applied |-> should_apply,
         detection_method |->
             IF should_apply
             THEN (IF page_rotation # 0 THEN "ocr+deskew" ELSE "deskew")
             ELSE method1,
         total_x100 |-> 100 * page_rotation + fine_rotation]

-----------------------------------------------------------------------------
(* SpecDecide: one page through detect_rotations and fix_pdf_rotation *)

PipelineIdle ==
    /\ page_count = 0
    /\ i = 0
    /\ new_doc = << >>
    /\ decided = << >>
    /\ changed = FALSE
    /\ pc = "idle"
    /\ ret = "None"
    /\ written = FALSE
    /\ out_file = << >>

InitDecide ==
    /\ inp \in Pages
    /\ det = DetIdle
    /\ fix = FixIdle
    /\ PipelineIdle
    /\ CvIdle
    /\ ImgIdle

DetectPage ==
    /\ ~det.done
    /\ det' = detect_page(inp)
    /\ UNCHANGED <<inp, fix, pvars, cvars, ivars>>

FixOnePage ==
    /\ ~fix.done
    /\ fix' = fix_page(inp)
    /\ UNCHANGED <<inp, det, pvars, cvars, ivars>>

NextDecide == DetectPage \/ FixOnePage

SpecDecide == InitDecide /\ [][NextDecide]_vars

-----------------------------------------------------------------------------
(* Spec: fix_pdf_rotation over a whole document *)

\* What one loop iteration can do, over every page a source can hold.
PageOutcomes ==
    { LET f == fix_page(p)
      IN  [raised |-> f.raised, rot |-> f.rot, page_cw |-> f.page_cw,
           changed |-> f.changed]
      : p \in Pages }

DecideIdle ==
    /\ inp = UnreadablePage
    /\ det = DetIdle
    /\ fix = FixIdle

\* src = fitz.open(input_pdf_path); new_doc = fitz.open(); changed = False
Init ==
    /\ page_count \in 0..MaxPages
    /\ i = 0
    /\ new_doc = << >>
    /\ decided = << >>
    /\ changed = FALSE
    /\ pc = "loop"
    /\ ret = "None"
    /\ written = FALSE
    /\ out_file = << >>
    /\ DecideIdle
    /\ CvIdle
    /\ ImgIdle

\* new_page = new_doc.new_page(...); new_page.insert_image(...): the page
\* appended for source page number n (1-based), holding that page's image
\* turned clockwise by cw.
inserted_page(n, cw) == [src |-> n, cw |-> cw]

\* changed = True inside "if rotate_clockwise != 0", else left alone
changed_after(was, o) == was \/ o.changed

\* One iteration of "for i in range(src.page_count)"; an exception leaves
\* the function.
FixPage ==
    /\ pc = "loop"
    /\ i < page_count
    /\ \E o \in PageOutcomes :
          IF o.raised
          THEN /\ pc' = "raised"
               /\ UNCHANGED <<i, new_doc, decided, changed>>
          ELSE /\ new_doc' = Append(new_doc, inserted_page(i + 1, o.page_cw))
               /\ decided' = Append(decided, o.rot)
               /\ changed' = changed_after(changed, o)
               /\ i' = i + 1
               /\ pc' = pc
    /\ UNCHANGED <<page_count, ret, written, out_file, dvars, cvars, ivars>>

\* if not changed: src.close(); new_doc.close(); return False
ReturnUnchanged ==
    /\ pc = "loop"
    /\ i = page_count
    /\ ~changed
    /\ pc' = "returned"
    /\ ret' = "False"
    /\ UNCHANGED <<page_count, i, new_doc, decided, changed, written, out_file, dvars,
                   cvars, ivars>>

\* new_doc.save(output_pdf_path); src.close(); new_doc.close(); return True
SaveAndReturn ==
    /\ pc = "loop"
    /\ i = page_count
    /\ changed
    /\ written' = TRUE
    /\ out_file' = new_doc
    /\ pc' = "returned"
    /\ ret' = "True"
    /\ UNCHANGED <<page_count, i, new_doc, decided, changed, dvars, cvars, ivars>>

Next == FixPage \/ ReturnUnchanged \/ SaveAndReturn

Spec == Init /\ [][Next]_vars

-----------------------------------------------------------------------------
(* SpecCV: detect_rotation_cv on one Hough result *)

InitCV ==
    /\ IsHoughResult(cv_in)
    /\ cv_out = CvOutIdle
    /\ DecideIdle
    /\ PipelineIdle
    /\ ImgIdle

DetectRotationCv ==
    /\ ~cv_out.done
    /\ cv_out' = detect_rotation_cv(cv_in)
    /\ UNCHANGED <<cv_in, dvars, pvars, ivars>>

NextCV == DetectRotationCv

SpecCV == InitCV /\ [][NextCV]_vars

-----------------------------------------------------------------------------
(* SpecImg: one /fix_rotation request *)

InitImg ==
    /\ img_in \in Requests
    /\ img_out = ImgOutIdle
    /\ DecideIdle
    /\ PipelineIdle
    /\ CvIdle

FixRotation ==
    /\ ~img_out.done
    /\ img_out' = fix_rotation(img_in)
    /\ UNCHANGED <<img_in, dvars, pvars, cvars>>

NextImg == FixRotation

SpecImg == InitImg /\ [][NextImg]_vars

-----------------------------------------------------------------------------
(* Properties of the deciders (SpecDecide) *)

\* The decisions taken so far on the page under test, one record per decider.
Decisions ==
    (IF det.done /\ ~det.raised
     THEN {[rot |-> det.rotate_clockwise, path |-> det.path, calls |-> det.calls]}
     ELSE {})
    \cup
    (IF fix.decided
     THEN {[rot |-> fix.rot, path |-> fix.path, calls |-> fix.calls]}
     ELSE {})

BothDecided == det.done /\ ~det.raised /\ fix.decided

\* C1: the rotation returned by either decider is one of 0, 90, 180, 270,
\* whatever OSD, CV and the four OCR calls return or raise.
C1_QuadrantOutput == \A d \in Decisions : d.rot \in Quadrants

C1_Witness ==
    /\ BothDecided
    /\ inp.osd = Raise /\ inp.cv = 180
    /\ fix.path = "vote" /\ fix.rot = 0 /\ det.rotate_clockwise = 0

\* OSD's corrective rotation is non-zero and CV's is defined and equal to it.
OsdCvAgree == inp.osd \in {90, 180, 270} /\ inp.cv = inp.osd

\* C2: when the OSD and CV corrective rotations agree on a non-zero value,
\* the decider returns it and makes no image_to_string call.
C2_AgreementSkipsVote ==
    OsdCvAgree =>
        \A d \in Decisions : d.rot = (360 - inp.osd) % 360 /\ d.calls = 0

C2_Witness ==
    /\ BothDecided /\ OsdCvAgree /\ inp.osd = 90
    /\ fix.rot = 270 /\ fix.calls = 0 /\ det.calls = 0
    /\ \E k \in 1..4 : inp.ocr[k] = Raise

\* The text lengths the vote compares: a failed OCR call counts as 0.
SeenLens == [k \in 1..4 |-> IF inp.ocr[k] = Raise THEN 0 ELSE inp.ocr[k]]
\* The first candidate of greatest length, and the greatest other length.
WinnerIdx ==
    CHOOSE k \in 1..4 :
        /\ \A j \in 1..4 : SeenLens[j] <= SeenLens[k]
        /\ \A j \in 1..(k - 1) : SeenLens[j] < SeenLens[k]
WinnerLen == SeenLens[WinnerIdx]
RunnerUpLen ==
    CHOOSE l \in {SeenLens[j] : j \in 1..4 \ {WinnerIdx}} :
        \A j \in 1..4 \ {WinnerIdx} : SeenLens[j] <= l
\* The acceptance rule of the OCR vote: a floor of 20 characters and a
\* margin of 1.5 times the runner-up.
VoteAccepted == WinnerLen >= 20 /\ 2 * WinnerLen >= 3 * RunnerUpLen

\* The fallback chain: OSD's corrective rotation if OSD has an opinion, else
\* CV's if CV is defined, else 0.
OsdOrientation == IF inp.osd \in Quadrants THEN inp.osd ELSE 0
FallbackChain ==
    IF OsdOrientation # 0 THEN (360 - OsdOrientation) % 360
    ELSE IF inp.cv \in Quadrants THEN (360 - inp.cv) % 360
    ELSE 0

\* No detector call and no image rotation raises on the page.
NoFailure ==
    /\ inp.raster # Raise /\ inp.rotbad = None
    /\ inp.osd # Raise /\ inp.cv # Raise
    /\ \A k \in 1..4 : inp.ocr[k] # Raise

\* C3: when the OCR vote runs, the winner's corrective rotation is returned
\* only if the winning length is at least 20 and at least 1.5 times the
\* runner-up's; otherwise the result comes from the fallback chain.
C3_VoteNeedsFloorAndMargin ==
    NoFailure =>
        \A d \in Decisions :
            d.path # "agree" =>
                /\ VoteAccepted => d.rot = (360 - Candidates[WinnerIdx]) % 360
                /\ ~VoteAccepted => d.rot = FallbackChain

\* C4: a decision that does not come from an accepted vote winner is the
\* fallback chain's; with OSD orientation 90 and no CV signal it is 270.
C4_FallbackChain ==
    NoFailure =>
        \A d \in Decisions :
            /\ (d.path # "agree" /\ ~VoteAccepted) => d.rot = FallbackChain
            /\ (inp.osd = 90 /\ inp.cv = None) => d.rot = 270

\* The page with every failed detector call replaced by the value the
\* deciders are to treat it as.
Absorbed(p) ==
    [p EXCEPT !.osd = IF @ = Raise THEN 0 ELSE @,
              !.cv = IF @ = Raise THEN None ELSE @,
              !.ocr = [k \in 1..4 |-> IF @[k] = Raise THEN 0 ELSE @[k]]]

\* C7: whatever detector calls raise, the deciders raise nothing and return
\* the quadrant they return when a failed OSD reads 0, a failed CV reads
\* None and a failed OCR call reads as empty text; the loop body then
\* inserts the page and goes on.
C7_DetectorFailuresAbsorbed ==
    inp.raster # Raise =>
        /\ det.done =>
              /\ ~det.raised
              /\ det.rotate_clockwise \in Quadrants
              /\ det.rotate_clockwise = choose_rotation_to_apply(Absorbed(inp)).rot
              /\ inp.osd = Raise => det.detected_deg = 0
              /\ inp.cv = Raise => det.candidate_from_cv = None
        /\ fix.done =>
              /\ fix.decided
              /\ fix.rot \in Quadrants
              /\ fix.rot = decide_clockwise_rotation(Absorbed(inp)).rot
              /\ inp.osd = Raise => fix.osd_deg = 0
              /\ inp.cv = Raise => fix.candidate_from_cv = None
              /\ inp.rotbad = None => ~fix.raised /\ fix.page_cw = fix.rot

C7_Witness ==
    /\ BothDecided
    /\ inp.osd = Raise /\ inp.cv = Raise
    /\ inp.ocr[1] = Raise /\ inp.ocr[3] = Raise /\ inp.ocr[2] = LenStep
    /\ ~fix.raised /\ fix.rot = 270 /\ fix.page_cw = 270 /\ fix.detfail

\* CV's corrective candidate: None for no opinion, 0 for upright.
CvCorrective(cv) ==
    IF cv \in {None, Raise} THEN None
    ELSE IF cv = 0 THEN 0
    ELSE (360 - cv) % 360

\* C10: on the same detector results both deciders hold the same CV
\* candidate (0 for a CV result of 0, None for None), return the same
\* rotation, and fix_pdf_rotation rotates the page exactly when
\* detect_rotations reports needs_rotation.
C10_DecidersEquivalent ==
    BothDecided =>
        /\ det.rotate_clockwise = fix.rot
        /\ det.path = fix.path /\ det.calls = fix.calls
        /\ det.candidate_from_cv = fix.candidate_from_cv
        /\ fix.candidate_from_cv = CvCorrective(inp.cv)
        /\ ~fix.raised => (fix.changed <=> det.needs_rotation)

C10_Witness ==
    /\ BothDecided /\ ~fix.raised
    /\ inp.cv = 0 /\ inp.osd = 180
    /\ fix.candidate_from_cv = 0 /\ det.candidate_from_cv = 0
    /\ fix.changed /\ det.needs_rotation /\ fix.rot = 90

-----------------------------------------------------------------------------
(* Properties of fix_pdf_rotation (Spec) *)

AllProcessed == Len(decided) = page_count
SomeRotated == \E k \in 1..Len(decided) : decided[k] # 0

\* C5: the output is written, and True returned, exactly when every page
\* was processed and some decision was non-zero; with all decisions 0 (or
\* no page) False is returned and nothing written; after an exception
\* nothing has been written.
C5_WriteIffChanged ==
    /\ written <=> (pc = "returned" /\ AllProcessed /\ SomeRotated)
    /\ ret = "True" <=> written
    /\ (pc = "returned" /\ ~SomeRotated) => (ret = "False" /\ ~written)
    /\ pc = "returned" => AllProcessed
    /\ pc = "raised" => (~written /\ ret = "None")

C5_Witness ==
    /\ pc = "returned" /\ page_count = 3
    /\ decided = <<0, 0, 0>> /\ ret = "False" /\ ~written

\* C6: the rebuilt document has one page per source page, in source order,
\* each the source page's image turned clockwise by that page's decision.
C6_PagesInSourceOrder ==
    /\ Len(new_doc) = Len(decided)
    /\ \A k \in 1..Len(new_doc) : new_doc[k] = [src |-> k, cw |-> decided[k]]
    /\ written =>
          /\ Len(out_file) = page_count
          /\ \A k \in 1..page_count : out_file[k] = [src |-> k, cw |-> decided[k]]

C6_Witness ==
    /\ written /\ page_count = 5
    /\ decided = <<0, 90, 180, 270, 0>>
    /\ Len(out_file) = 5

-----------------------------------------------------------------------------
(* Properties of detect_rotation_cv (SpecCV) *)

\* Twice the median of the normalised line angles, as the run computed it.
M2 == cv_out.median_x2
LinesSeen == cv_in.found /\ Len(cv_in.thetas) > 0

\* The multiple of 90 nearest to the median (a tie at 45 degrees goes to 0),
\* modulo 360.
NearestQuadrant(m2) ==
    IF Abs(m2) <= 90 THEN 0 ELSE IF m2 > 0 THEN 90 ELSE 270

\* C9 as stated, the band taken as 80 <= |m| <= 100: 0 below 10 degrees; in
\* the band 90 or 270 by the sign of m alone; otherwise the nearest multiple
\* of 90, or None; None when no line is detected.
C9_TableWithClosedBand ==
    cv_out.done =>
        IF ~LinesSeen THEN cv_out.ret = None
        ELSE /\ Abs(M2) < 20 => cv_out.ret = 0
             /\ (160 <= Abs(M2) /\ Abs(M2) <= 200) =>
                   /\ cv_out.ret \in {90, 270}
                   /\ \A n2 \in -180..179 :
                         (160 <= Abs(n2) /\ (n2 > 0) = (M2 > 0))
                             => quadrant_of_median(n2) = cv_out.ret
             /\ (20 <= Abs(M2) /\ Abs(M2) < 160) =>
                   cv_out.ret \in {NearestQuadrant(M2), None}

\* C9 amended: the band is 80 < |m| <= 100.  The median lies in [-90, 90);
\* below 10 degrees the result is 0; for 80 < |m| it is 270 when m > 0 and
\* 90 when m < 0; for 10 <= |m| <= 80 it is the nearest multiple of 90
\* modulo 360 (so 90 for m = 80 and 270 for m = -80) and never None; it is
\* None exactly when no line is detected.
C9_DecisionTable ==
    cv_out.done =>
        IF ~LinesSeen THEN cv_out.ret = None
        ELSE /\ M2 \in -180..179
             /\ cv_out.ret # None
             /\ Abs(M2) < 20 => cv_out.ret = 0
             /\ 160 < Abs(M2) => cv_out.ret = (IF M2 > 0 THEN 270 ELSE 90)
             /\ (20 <= Abs(M2) /\ Abs(M2) <= 160) =>
                   cv_out.ret = NearestQuadrant(M2)

C9_Witness ==
    /\ cv_out.done /\ LinesSeen
    /\ cv_in.thetas = <<80>> /\ M2 = 160 /\ cv_out.ret = 90

-----------------------------------------------------------------------------
(* Properties of fix_rotation (SpecImg) *)

Determinable == img_in.est.state = "angle"
Skew == img_in.est.skew

\* C8 as stated: without force_table_fix the fine correction is applied
\* exactly when |skew| exceeds 0.3 degree; with it, for every determinable
\* non-zero estimate; never for an undetermined estimate.
C8_ForceAppliesAnyNonZero ==
    img_out.done =>
        /\ ~img_in.force_table_fix =>
              (img_out.applied <=> (Determinable /\ Abs(Skew) > 30))
        /\ img_in.force_table_fix =>
              (img_out.applied <=> (Determinable /\ Skew # 0))
        /\ ~Determinable => ~img_out.applied

\* C8 amended: without force_table_fix the fine correction is applied
\* exactly when |skew| exceeds 0.3 degree; with it, exactly when |skew|
\* exceeds 0.2 degree; never for an undetermined estimate; an applied
\* correction is the estimate itself.
C8_ForceLowersThreshold ==
    img_out.done =>
        /\ ~img_in.force_table_fix =>
              (img_out.applied <=> (Determinable /\ Abs(Skew) > 30))
        /\ img_in.force_table_fix =>
              (img_out.applied <=> (Determinable /\ Abs(Skew) > 20))
        /\ ~Determinable => ~img_out.applied
        /\ img_out.fine_rotation = (IF img_out.applied THEN Skew ELSE 0)

C8_Witness ==
    /\ img_out.done /\ img_in.force_table_fix /\ Determinable
    /\ Skew = -25 /\ img_out.applied /\ img_out.fine_rotation = -25
    /\ img_out.detection_method = "deskew"

=============================================================================
